---- MODULE Spec2Model ----
(***************************************************************************)
(* VMConsoleManager.execute_command (src/proxmox_mcp/tools/vm_console.py). *)
(*                                                                         *)
(* Each invocation of the coroutine is a process i \in Procs.  The asyncio *)
(* event loop runs one coroutine at a time (variable current); a coroutine *)
(* gives the loop up only at "await asyncio.sleep(1)" or when it ends.     *)
(* An invocation that has executed its return or raise is "done" and still *)
(* holds the loop; Exit hands the outcome to the caller and drops the      *)
(* frame, so log and outcome describe invocations that are under way.      *)
(* Python strings that the code formats, searches or lowercases are        *)
(* sequences of one-character strings, so that str.lower() and the "in"    *)
(* substring test are computed, not assumed.  Python values returned by    *)
(* the Proxmox API are tagged records [tag, val].                          *)
(***************************************************************************)
EXTENDS Integers, Sequences, FiniteSets, TLC

\* ------------------------------------------------------------------------
\* Bounds
\* ------------------------------------------------------------------------
\* number of invocations of execute_command that share one ProxmoxAPI handle
NumInv == 2
\* process identifiers the guest agent may hand out are 1..MaxPid
MaxPid == 2

Procs == 1..NumInv

\* ------------------------------------------------------------------------
\* Text literals of the source, character by character
\* ------------------------------------------------------------------------
\* "VM "
TxtVM == <<"V","M"," ">>
\* " on node "
TxtOnNode == <<" ","o","n"," ","n","o","d","e"," ">>
\* " is not running"
TxtIsNotRunning == <<" ","i","s"," ","n","o","t"," ","r","u","n","n","i","n","g">>
\* " not found on node "
TxtNotFoundOnNode == <<" ","n","o","t"," ","f","o","u","n","d"," ","o","n"," ","n","o","d","e"," ">>
\* "Failed to start command: "
TxtFailedToStart == <<"F","a","i","l","e","d"," ","t","o"," ","s","t","a","r","t"," ","c","o","m","m","a","n","d",":"," ">>
\* "No PID returned from command execution"
TxtNoPid == <<"N","o"," ","P","I","D"," ","r","e","t","u","r","n","e","d"," ","f","r","o","m"," ","c","o","m","m","a","n","d"," ","e","x","e","c","u","t","i","o","n">>
\* variant of TxtNoResponse: "exec-status response not found"
TxtResponseNotFound == <<"e","x","e","c","-","s","t","a","t","u","s"," ","r","e","s","p","o","n","s","e"," ","n","o","t"," ","f","o","u","n","d">>
\* "No response from exec-status"
TxtNoResponse == <<"N","o"," ","r","e","s","p","o","n","s","e"," ","f","r","o","m"," ","e","x","e","c","-","s","t","a","t","u","s">>
\* "Failed to get command status: "
TxtFailedToGetStatus == <<"F","a","i","l","e","d"," ","t","o"," ","g","e","t"," ","c","o","m","m","a","n","d"," ","s","t","a","t","u","s",":"," ">>
\* "API call failed: "
TxtApiCallFailed == <<"A","P","I"," ","c","a","l","l"," ","f","a","i","l","e","d",":"," ">>
\* "Failed to execute command: "
TxtFailedToExecute == <<"F","a","i","l","e","d"," ","t","o"," ","e","x","e","c","u","t","e"," ","c","o","m","m","a","n","d",":"," ">>
\* "not found"
TxtNotFound == <<"n","o","t"," ","f","o","u","n","d">>
\* str(KeyError("status")) is "'status'"
TxtKeyErrorStatus == <<"'","s","t","a","t","u","s","'">>

\* ------------------------------------------------------------------------
\* Python string operations
\* ------------------------------------------------------------------------
UpperToLower ==
    ("A" :> "a") @@ ("B" :> "b") @@ ("C" :> "c") @@ ("D" :> "d") @@
    ("E" :> "e") @@ ("F" :> "f") @@ ("G" :> "g") @@ ("H" :> "h") @@
    ("I" :> "i") @@ ("J" :> "j") @@ ("K" :> "k") @@ ("L" :> "l") @@
    ("M" :> "m") @@ ("N" :> "n") @@ ("O" :> "o") @@ ("P" :> "p") @@
    ("Q" :> "q") @@ ("R" :> "r") @@ ("S" :> "s") @@ ("T" :> "t") @@
    ("U" :> "u") @@ ("V" :> "v") @@ ("W" :> "w") @@ ("X" :> "x") @@
    ("Y" :> "y") @@ ("Z" :> "z")

\* str.lower()
Lower(s) ==
    [k \in 1..Len(s) |-> IF s[k] \in DOMAIN UpperToLower THEN UpperToLower[s[k]] ELSE s[k]]

\* sub in s
Contains(s, sub) ==
    \E t \in {s} :
        \E k \in 0..(Len(t) - Len(sub)) : \A j \in 1..Len(sub) : t[k + j] = sub[j]

\* one decimal digit
Digit(d) ==
    <<CASE d = 0 -> "0" [] d = 1 -> "1" [] d = 2 -> "2" [] d = 3 -> "3"
        [] d = 4 -> "4" [] d = 5 -> "5" [] d = 6 -> "6" [] d = 7 -> "7"
        [] d = 8 -> "8" [] d = 9 -> "9">>

RECURSIVE NatStr(_)
NatStr(n) == IF n < 10 THEN Digit(n) ELSE NatStr(n \div 10) \o Digit(n % 10)

\* str(n) of an int
IntStr(n) == IF n < 0 THEN <<"-">> \o NatStr(0 - n) ELSE NatStr(n)

RECURSIVE JoinInts(_)
JoinInts(l) ==
    IF Len(l) = 0 THEN <<>>
    ELSE IF Len(l) = 1 THEN IntStr(l[1])
    ELSE IntStr(l[1]) \o <<",", " ">> \o JoinInts(Tail(l))

\* ------------------------------------------------------------------------
\* Python values handed back by the Proxmox API client
\* ------------------------------------------------------------------------
PyDict(f) == [tag |-> "dict", val |-> f]
PyStr(s) == [tag |-> "str", val |-> s]
PyInt(n) == [tag |-> "int", val |-> n]
PyList(l) == [tag |-> "list", val |-> l]
PyBool(b) == [tag |-> "bool", val |-> b]
PyNone == [tag |-> "NoneType", val |-> 0]

\* variant of Truthy: the test "console is None" in place of "not console"
TruthyNotNone(v) == v.tag # "NoneType"

\* bool(v): what "not console" negates
Truthy(v) ==
    CASE v.tag = "dict" -> DOMAIN v.val # {}
      [] v.tag = "str" -> Len(v.val) > 0
      [] v.tag = "int" -> v.val # 0
      [] v.tag = "list" -> Len(v.val) > 0
      [] v.tag = "bool" -> v.val
      [] v.tag = "NoneType" -> FALSE

\* variant of Str: repr(v), which quotes a string
StrRepr(v) ==
    CASE v.tag = "str" -> <<"'">> \o v.val \o <<"'">>
      [] v.tag = "int" -> IntStr(v.val)
      [] v.tag = "list" -> <<"[">> \o JoinInts(v.val) \o <<"]">>
      [] v.tag = "bool" -> IF v.val THEN <<"T","r","u","e">> ELSE <<"F","a","l","s","e">>
      [] v.tag = "NoneType" -> <<"N","o","n","e">>

\* str(v) of a value that is not a dict
Str(v) ==
    CASE v.tag = "str" -> v.val
      [] v.tag = "int" -> IntStr(v.val)
      [] v.tag = "list" -> <<"[">> \o JoinInts(v.val) \o <<"]">>
      [] v.tag = "bool" -> IF v.val THEN <<"T","r","u","e">> ELSE <<"F","a","l","s","e">>
      [] v.tag = "NoneType" -> <<"N","o","n","e">>

\* dict.get(key, default)
Get(d, key, default) == IF key \in DOMAIN d THEN d[key] ELSE default

\* ------------------------------------------------------------------------
\* Exceptions
\* ------------------------------------------------------------------------
\* an exception object: its class and str(e)
Exc(cls, msg) == [cls |-> cls, msg |-> msg]
NoExc == Exc("none", <<>>)

\* a collaborator call either returns a value or raises
Returned(v) == [raised |-> FALSE, val |-> v]
Raised(e) == [raised |-> TRUE, exc |-> e]

\* ------------------------------------------------------------------------
\* Inputs: the caller's arguments and what the Proxmox API may answer
\* ------------------------------------------------------------------------
Requests ==
    { [node |-> <<"p","v","e">>, vmid |-> <<"1","0","0">>, command |-> <<"l","s">>],
      [node |-> <<"n","o","t"," ","f","o","u","n","d">>, vmid |-> <<"1","0","0">>, command |-> <<"l","s">>],
      [node |-> <<"p","v","e">>, vmid |-> <<"N","o","t"," ","F","o","u","n","d">>, command |-> <<"n","o","t"," ","f","o","u","n","d">>] }

\* str(e) of a failure of the API client
ErrorTexts == { <<"t","i","m","e","o","u","t">>, <<"4","0","4"," ","N","o","t"," ","F","o","u","n","d">>, <<"v","m"," ","n","o","t"," ","f","o","u","n","d">>, <<"N","O","T"," ","F","O","U","N","D">>, <<"n","o","t","f","o","u","n","d">> }

\* "Exception" stands for every class that is not ValueError or below it
CollabErrors == { Exc(c, m) : c \in {"ValueError", "RuntimeError", "Exception"}, m \in ErrorTexts }

StatusReplies ==
    { Returned(PyDict([status |-> s])) : s \in {"running", "stopped", "paused", "Running"} }
    \cup { Returned(PyDict([name |-> <<"v","m">>])) }
    \cup { Raised(e) : e \in CollabErrors }

SubmitReplies ==
    { Returned(PyDict([pid |-> p])) : p \in 1..MaxPid }
    \cup { Returned(PyDict(<<>>)) }
    \cup { Raised(e) : e \in CollabErrors }

PollDicts ==
    { ("out-data" :> <<"h","i">>) @@ ("err-data" :> <<>>) @@ ("exitcode" :> 0) @@ ("exited" :> 1),
      ("exited" :> 0),
      ("out-data" :> <<>>) @@ ("err-data" :> <<"b","o","o","m">>) @@ ("exitcode" :> 2) @@ ("exited" :> 1),
      ("exitcode" :> 1),
      ("out-data" :> <<"h","i">>),
      ("err-data" :> <<"b","o","o","m">>) @@ ("exited" :> 1),
      <<>> }

PollOpaque ==
    { PyStr(<<"d","o","n","e">>), PyStr(<<>>), PyInt(0), PyInt(0 - 7), PyList(<<>>),
      PyList(<<1, 20>>), PyInt(305), PyBool(TRUE), PyBool(FALSE), PyNone }

PollReplies ==
    { Returned(PyDict(d)) : d \in PollDicts }
    \cup { Returned(v) : v \in PollOpaque }
    \cup { Raised(e) : e \in CollabErrors }

\* ------------------------------------------------------------------------
\* State
\* ------------------------------------------------------------------------
VARIABLES
    current,   \* the coroutines the event loop is running: {i} or {}
    pc,        \* pc[i]: where invocation i stands
    req,       \* req[i]: node, vmid, command of invocation i
    pid,       \* pid[i]: local variable pid (line 66)
    console,   \* console[i]: local variable console (line 76)
    log,       \* log[i]: the calls invocation i made, with argument and answer
    outcome    \* outcome[i]: what the caller of invocation i got

vars == <<current, pc, req, pid, console, log, outcome>>

NoRequest == [node |-> <<>>, vmid |-> <<>>, command |-> <<>>]
Pending == [kind |-> "pending"]
Result(v) == [kind |-> "return", value |-> v]
Error(e) == [kind |-> "raise", exc |-> e]

Entry(op, arg, reply) == [op |-> op, arg |-> arg, reply |-> reply]

Init ==
    /\ current = {}
    /\ pc = [i \in Procs |-> "idle"]
    /\ req = [i \in Procs |-> NoRequest]
    /\ pid = [i \in Procs |-> 0]
    /\ console = [i \in Procs |-> PyNone]
    /\ log = [i \in Procs |-> <<>>]
    /\ outcome = [i \in Procs |-> Pending]

\* ------------------------------------------------------------------------
\* The exception handlers of execute_command
\* ------------------------------------------------------------------------
\* f"VM {vmid} on node {node} is not running"
NotRunningError(r) == Exc("ValueError", TxtVM \o r.vmid \o TxtOnNode \o r.node \o TxtIsNotRunning)

\* f"VM {vmid} not found on node {node}"
NotFoundError(r) == Exc("ValueError", TxtVM \o r.vmid \o TxtNotFoundOnNode \o r.node)

\* except Exception around endpoint("exec").post
StartHandler(e) == Exc("RuntimeError", TxtFailedToStart \o e.msg)

\* variant of StatusHandler: the text of the start handler copied to it
StatusHandlerAsStart(e) == Exc("RuntimeError", TxtFailedToStart \o e.msg)

\* except Exception around endpoint("exec-status").get and the emptiness test
StatusHandler(e) == Exc("RuntimeError", TxtFailedToGetStatus \o e.msg)

\* except Exception around the two-step process
ApiHandler(e) == Exc("RuntimeError", TxtApiCallFailed \o e.msg)

\* variant of OuterHandler: the "not found" test placed before the re-raise
OuterHandlerNotFoundFirst(e, r) ==
    IF Contains(Lower(e.msg), TxtNotFound) THEN NotFoundError(r)
    ELSE IF e.cls = "ValueError" THEN e
    ELSE Exc("RuntimeError", TxtFailedToExecute \o e.msg)

\* except ValueError: raise / except Exception as e: ...
OuterHandler(e, r) ==
    IF e.cls = "ValueError" THEN e
    ELSE IF Contains(Lower(e.msg), TxtNotFound) THEN NotFoundError(r)
    ELSE Exc("RuntimeError", TxtFailedToExecute \o e.msg)

\* the invocation ends with exception e escaping the outer try body
Fail(i, e) ==
    /\ outcome' = [outcome EXCEPT ![i] = Error(OuterHandler(e, req[i]))]
    /\ pc' = [pc EXCEPT ![i] = "done"]
    /\ UNCHANGED current

\* ------------------------------------------------------------------------
\* Steps of execute_command
\* ------------------------------------------------------------------------
\* the caller awaits execute_command(node, vmid, command)
Call(i) ==
    /\ current = {}
    /\ pc[i] = "idle"
    /\ \E r \in Requests : req' = [req EXCEPT ![i] = r]
    /\ pc' = [pc EXCEPT ![i] = "status"]
    /\ current' = {i}
    /\ UNCHANGED <<pid, console, log, outcome>>

\* variant of IsRunning: the status compared without regard to case
IsRunningAnyCase(vm_status) == vm_status.val["status"] \in {"running", "Running"}

\* vm_status["status"] != "running", negated
IsRunning(vm_status) == vm_status.val["status"] = "running"

\* variant of StatusCheck: no test of the reported status (lines 38-40 absent)
StatusCheckAnyStatus(reply, r) ==
    IF reply.raised THEN reply.exc
    ELSE NoExc

\* what lines 37-40 raise for a given answer of status.current.get()
StatusCheck(reply, r) ==
    IF reply.raised THEN reply.exc
    ELSE IF "status" \notin DOMAIN reply.val.val THEN Exc("KeyError", TxtKeyErrorStatus)
    ELSE IF ~IsRunning(reply.val) THEN NotRunningError(r)
    ELSE NoExc

StatusQuery(i) ==
    /\ current = {i}
    /\ pc[i] = "status"
    /\ \E reply \in StatusReplies :
        /\ log' = [log EXCEPT ![i] = Append(log[i], Entry("status", <<req[i].node, req[i].vmid>>, reply))]
        /\ LET e == StatusCheck(reply, req[i]) IN
            IF e # NoExc
            THEN Fail(i, e)
            ELSE /\ pc' = [pc EXCEPT ![i] = "submit"]
                 /\ UNCHANGED <<current, outcome>>
    /\ UNCHANGED <<req, pid, console>>

\* 'pid' in exec_result
HasPid(exec_result) == "pid" \in DOMAIN exec_result.val

\* variant of SubmitCheck: the pid test inside the try of line 54
SubmitCheckWrapped(reply) ==
    IF reply.raised THEN StartHandler(reply.exc)
    ELSE IF ~HasPid(reply.val) THEN StartHandler(Exc("RuntimeError", TxtNoPid))
    ELSE NoExc

\* what lines 54-64 raise, seen from the try of line 51
SubmitCheck(reply) ==
    IF reply.raised THEN StartHandler(reply.exc)
    ELSE IF ~HasPid(reply.val) THEN Exc("RuntimeError", TxtNoPid)
    ELSE NoExc

\* variant of Submit: the pid kept in one place shared by all invocations
SubmitSharedPid(i) ==
    /\ current = {i}
    /\ pc[i] = "submit"
    /\ \E reply \in SubmitReplies :
        /\ log' = [log EXCEPT ![i] = Append(log[i], Entry("submit", req[i].command, reply))]
        /\ LET e == SubmitCheck(reply) IN
            IF e # NoExc
            THEN /\ Fail(i, ApiHandler(e))
                 /\ UNCHANGED pid
            ELSE /\ pid' = [j \in Procs |-> IF pc[j] \in {"submit", "sleeping"}
                                            THEN reply.val.val["pid"] ELSE pid[j]]
                 /\ pc' = [pc EXCEPT ![i] = "delay"]
                 /\ UNCHANGED <<current, outcome>>
    /\ UNCHANGED <<req, console>>

Submit(i) ==
    /\ current = {i}
    /\ pc[i] = "submit"
    /\ \E reply \in SubmitReplies :
        /\ log' = [log EXCEPT ![i] = Append(log[i], Entry("submit", req[i].command, reply))]
        /\ LET e == SubmitCheck(reply) IN
            IF e # NoExc
            THEN /\ Fail(i, ApiHandler(e))
                 /\ UNCHANGED pid
            ELSE /\ pid' = [pid EXCEPT ![i] = reply.val.val["pid"]]
                 /\ pc' = [pc EXCEPT ![i] = "delay"]
                 /\ UNCHANGED <<current, outcome>>
    /\ UNCHANGED <<req, console>>

\* variant of Sleep: no await asyncio.sleep(1) between submit and poll
SleepSkipped(i) ==
    /\ current = {i}
    /\ pc[i] = "delay"
    /\ pc' = [pc EXCEPT ![i] = "poll"]
    /\ UNCHANGED <<current, req, pid, console, log, outcome>>

\* await asyncio.sleep(1): the coroutine is suspended and the loop is free
Sleep(i) ==
    /\ current = {i}
    /\ pc[i] = "delay"
    /\ log' = [log EXCEPT ![i] = Append(log[i], Entry("sleep", 1, Returned(PyNone)))]
    /\ pc' = [pc EXCEPT ![i] = "sleeping"]
    /\ current' = {}
    /\ UNCHANGED <<req, pid, console, outcome>>

\* variant of Wake: the woken coroutine runs at once, as a thread would,
\* whatever the loop is running
WakePreempting(i) ==
    /\ pc[i] = "sleeping"
    /\ pc' = [pc EXCEPT ![i] = "poll"]
    /\ current' = {i}
    /\ UNCHANGED <<req, pid, console, log, outcome>>

\* the delay has elapsed and the loop resumes the coroutine
Wake(i) ==
    /\ current = {}
    /\ pc[i] = "sleeping"
    /\ pc' = [pc EXCEPT ![i] = "poll"]
    /\ current' = {i}
    /\ UNCHANGED <<req, pid, console, log, outcome>>

\* what lines 74-82 raise, seen from the try of line 51
PollCheck(reply) ==
    IF reply.raised THEN StatusHandler(reply.exc)
    ELSE IF ~Truthy(reply.val) THEN StatusHandler(Exc("RuntimeError", TxtNoResponse))
    ELSE NoExc

\* variant of Poll: an empty answer is polled for again, once
PollRetry(i) ==
    /\ current = {i}
    /\ pc[i] = "poll"
    /\ \E reply \in PollReplies :
        /\ log' = [log EXCEPT ![i] = Append(log[i], Entry("poll", pid[i], reply))]
        /\ IF ~reply.raised /\ ~Truthy(reply.val) /\ Len(log[i]) < 4
           THEN UNCHANGED <<pc, current, outcome, console>>
           ELSE LET e == PollCheck(reply) IN
                IF e # NoExc
                THEN /\ Fail(i, ApiHandler(e))
                     /\ UNCHANGED console
                ELSE /\ console' = [console EXCEPT ![i] = reply.val]
                     /\ pc' = [pc EXCEPT ![i] = "normalize"]
                     /\ UNCHANGED <<current, outcome>>
    /\ UNCHANGED <<req, pid>>

\* variant of Poll: a mapping whose exited flag is 0 or absent is polled for
\* again, the new answer taking the place of the old one in the log
PollUntilExited(i) ==
    /\ current = {i}
    /\ pc[i] = "poll"
    /\ \E reply \in PollReplies :
        /\ log' = [log EXCEPT ![i] = SubSeq(log[i], 1, 3) \o <<Entry("poll", pid[i], reply)>>]
        /\ IF /\ ~reply.raised
              /\ reply.val.tag = "dict"
              /\ Truthy(reply.val)
              /\ Get(reply.val.val, "exited", 0) = 0
           THEN UNCHANGED <<pc, current, outcome, console>>
           ELSE LET e == PollCheck(reply) IN
                IF e # NoExc
                THEN /\ Fail(i, ApiHandler(e))
                     /\ UNCHANGED console
                ELSE /\ console' = [console EXCEPT ![i] = reply.val]
                     /\ pc' = [pc EXCEPT ![i] = "normalize"]
                     /\ UNCHANGED <<current, outcome>>
    /\ UNCHANGED <<req, pid>>

Poll(i) ==
    /\ current = {i}
    /\ pc[i] = "poll"
    /\ \E reply \in PollReplies :
        /\ log' = [log EXCEPT ![i] = Append(log[i], Entry("poll", pid[i], reply))]
        /\ LET e == PollCheck(reply) IN
            IF e # NoExc
            THEN /\ Fail(i, ApiHandler(e))
                 /\ UNCHANGED console
            ELSE /\ console' = [console EXCEPT ![i] = reply.val]
                 /\ pc' = [pc EXCEPT ![i] = "normalize"]
                 /\ UNCHANGED <<current, outcome>>
    /\ UNCHANGED <<req, pid>>

\* variant of Normalize: out-data and err-data exchanged
NormalizeSwapped(c) ==
    IF c.tag = "dict"
    THEN [success |-> TRUE,
          output |-> Get(c.val, "err-data", <<>>),
          error |-> Get(c.val, "out-data", <<>>),
          exit_code |-> Get(c.val, "exitcode", 0)]
    ELSE [success |-> TRUE, output |-> Str(c), error |-> <<>>, exit_code |-> 0]

\* variant of Normalize: success follows the remote process's exit status
NormalizeExitStatus(c) ==
    IF c.tag = "dict"
    THEN [success |-> Get(c.val, "exited", 0) # 0 /\ Get(c.val, "exitcode", 0) = 0,
          output |-> Get(c.val, "out-data", <<>>),
          error |-> Get(c.val, "err-data", <<>>),
          exit_code |-> Get(c.val, "exitcode", 0)]
    ELSE [success |-> TRUE, output |-> Str(c), error |-> <<>>, exit_code |-> 0]

\* lines 94-121: the dictionary execute_command returns for console c
Normalize(c) ==
    IF c.tag = "dict"
    THEN [success |-> TRUE,
          output |-> Get(c.val, "out-data", <<>>),
          error |-> Get(c.val, "err-data", <<>>),
          exit_code |-> Get(c.val, "exitcode", 0)]
    ELSE [success |-> TRUE, output |-> Str(c), error |-> <<>>, exit_code |-> 0]

Finish(i) ==
    /\ current = {i}
    /\ pc[i] = "normalize"
    /\ outcome' = [outcome EXCEPT ![i] = Result(Normalize(console[i]))]
    /\ pc' = [pc EXCEPT ![i] = "done"]
    /\ UNCHANGED <<current, req, pid, console, log>>

\* the coroutine ends: the caller has the result or the exception, the frame
\* with its locals is gone and the loop is free
Exit(i) ==
    /\ current = {i}
    /\ pc[i] = "done"
    /\ pc' = [pc EXCEPT ![i] = "returned"]
    /\ current' = {}
    /\ req' = [req EXCEPT ![i] = NoRequest]
    /\ pid' = [pid EXCEPT ![i] = 0]
    /\ console' = [console EXCEPT ![i] = PyNone]
    /\ log' = [log EXCEPT ![i] = <<>>]
    /\ outcome' = [outcome EXCEPT ![i] = Pending]

Next ==
    \E i \in Procs :
        \/ Call(i)
        \/ StatusQuery(i)
        \/ Submit(i)
        \/ Sleep(i)
        \/ Wake(i)
        \/ Poll(i)
        \/ Finish(i)
        \/ Exit(i)

Spec == Init /\ [][Next]_vars

\* a step of an invocation that has been called
Progress ==
    \E i \in Procs :
        \/ StatusQuery(i)
        \/ Submit(i)
        \/ Sleep(i)
        \/ Wake(i)
        \/ Poll(i)
        \/ Finish(i)
        \/ Exit(i)

\* every collaborator call returns or raises, the delay elapses and a
\* coroutine that can run is run; nothing obliges a caller to call
Fairness == WF_vars(Progress)

FairSpec == Spec /\ Fairness

\* ------------------------------------------------------------------------
\* Reading the call log
\* ------------------------------------------------------------------------
\* the operations invocation i performed, in order
Ops(i) == [k \in 1..Len(log[i]) |-> log[i][k].op]

\* how often invocation i performed op
Count(i, op) == Cardinality({k \in 1..Len(log[i]) : log[i][k].op = op})

\* positions in log[i] at which op was answered by a returned value
ReturnedAt(i, op) == {k \in 1..Len(log[i]) : log[i][k].op = op /\ ~log[i][k].reply.raised}

\* positions in log[i] at which a collaborator call raised
RaisedAt(i) == {k \in 1..Len(log[i]) : log[i][k].reply.raised}

\* the status query of invocation i reported a status other than "running"
ReportedNotRunning(i) ==
    \E k \in ReturnedAt(i, "status") :
        LET d == log[i][k].reply.val.val IN
        "status" \in DOMAIN d /\ d["status"] # "running"

\* submit answered invocation i with a mapping that has no pid
SubmitWithoutPid(i) ==
    \E k \in ReturnedAt(i, "submit") : "pid" \notin DOMAIN log[i][k].reply.val.val

\* submit answered invocation i with a pid
SubmitWithPid(i) ==
    \E k \in ReturnedAt(i, "submit") : "pid" \in DOMAIN log[i][k].reply.val.val

\* the values that Python treats as false among the poll answers
FalsyValues ==
    { PyDict(<<>>), PyStr(<<>>), PyInt(0), PyList(<<>>), PyBool(FALSE), PyNone }

\* poll answered invocation i with an empty or missing response
PollEmpty(i) ==
    \E k \in ReturnedAt(i, "poll") : log[i][k].reply.val \in FalsyValues

\* poll answered invocation i with a non-empty response
PollNonEmpty(i) ==
    \E k \in ReturnedAt(i, "poll") : log[i][k].reply.val \notin FalsyValues

\* the errors as the caller sees them: all RuntimeError, told apart by text
\* RuntimeError("Failed to execute command: API call failed: No PID returned from command execution")
ExecutionStartErrorNoPid ==
    Exc("RuntimeError", TxtFailedToExecute \o TxtApiCallFailed \o TxtNoPid)

\* RuntimeError("Failed to execute command: API call failed: Failed to get command status: No response from exec-status")
StatusFetchErrorNoResponse ==
    Exc("RuntimeError", TxtFailedToExecute \o TxtApiCallFailed \o TxtFailedToGetStatus \o TxtNoResponse)

\* ------------------------------------------------------------------------
\* C1: whenever the status query reports a status other than "running", the
\* invocation has ended with the not-running ValueError and the status query
\* is the only call it ever made (no submit, no sleep, no poll).
\* ------------------------------------------------------------------------
C1_NotRunningStopsExecution ==
    \A i \in Procs :
        ReportedNotRunning(i) =>
            /\ pc[i] = "done"
            /\ outcome[i] = Error(NotRunningError(req[i]))
            /\ Ops(i) = <<"status">>

C1_Witness ==
    \E i \in Procs :
        /\ pc[i] = "done"
        /\ Len(log[i]) = 1
        /\ log[i][1].reply = Returned(PyDict([status |-> "Running"]))
        /\ outcome[i].kind = "raise"

\* ------------------------------------------------------------------------
\* C2: whenever submit answers with a mapping without a pid, the invocation
\* has ended with the start error "No PID returned from command execution"
\* (a RuntimeError) and poll was not called.
\* ------------------------------------------------------------------------
C2_NoPidIsStartError ==
    \A i \in Procs :
        SubmitWithoutPid(i) =>
            /\ pc[i] = "done"
            /\ outcome[i] = Error(ExecutionStartErrorNoPid)
            /\ Count(i, "poll") = 0
            /\ Count(i, "sleep") = 0

C2_Witness ==
    \E i \in Procs :
        /\ pc[i] = "done"
        /\ Ops(i) = <<"status", "submit">>
        /\ log[i][2].reply = Returned(PyDict(<<>>))
        /\ outcome[i].kind = "raise"

\* ------------------------------------------------------------------------
\* C3: whenever poll answers with a false value (None, "", 0, [], False or
\* an empty mapping), the invocation has ended with the status-fetch error
\* "No response from exec-status" (a RuntimeError) and returned no result.
\* ------------------------------------------------------------------------
C3_EmptyPollIsStatusFetchError ==
    \A i \in Procs :
        PollEmpty(i) =>
            /\ pc[i] = "done"
            /\ outcome[i] = Error(StatusFetchErrorNoResponse)

C3_Witness ==
    \E i \in Procs :
        /\ pc[i] = "done"
        /\ Len(log[i]) = 4
        /\ log[i][4].reply = Returned(PyDict(<<>>))
        /\ outcome[i].kind = "raise"

\* the answer poll gave invocation i (meaningful once poll is in the log)
PollReply(i) == log[i][Len(log[i])].reply

\* invocation i has ended and its last call, the poll, returned value v
EndedAfterPoll(i) ==
    /\ pc[i] = "done"
    /\ Len(log[i]) = 4
    /\ log[i][4].op = "poll"
    /\ ~log[i][4].reply.raised

\* ------------------------------------------------------------------------
\* C4: when poll answers with a non-empty mapping, the invocation returns a
\* result whose output is the mapping's out-data ("" when absent), whose
\* error is its err-data ("" when absent) and whose exit_code is its
\* exitcode (0 when absent); {out-data: "hi", err-data: "", exitcode: 0,
\* exited: 1} gives {success: True, output: "hi", error: "", exit_code: 0}.
\* ------------------------------------------------------------------------
C4_StructuredResponse ==
    \A i \in Procs :
        (EndedAfterPoll(i) /\ PollReply(i).val.tag = "dict" /\ PollReply(i).val.val # <<>>) =>
            LET d == PollReply(i).val.val IN
            /\ outcome[i].kind = "return"
            /\ outcome[i].value.output = (IF "out-data" \in DOMAIN d THEN d["out-data"] ELSE <<>>)
            /\ outcome[i].value.error = (IF "err-data" \in DOMAIN d THEN d["err-data"] ELSE <<>>)
            /\ outcome[i].value.exit_code = (IF "exitcode" \in DOMAIN d THEN d["exitcode"] ELSE 0)
            /\ (d = ("out-data" :> <<"h","i">>) @@ ("err-data" :> <<>>) @@ ("exitcode" :> 0) @@ ("exited" :> 1)
                => outcome[i].value = [success |-> TRUE, output |-> <<"h","i">>, error |-> <<>>, exit_code |-> 0])

C4_Witness ==
    \E i \in Procs :
        /\ EndedAfterPoll(i)
        /\ PollReply(i).val = PyDict(("out-data" :> <<>>) @@ ("err-data" :> <<"b","o","o","m">>) @@ ("exitcode" :> 2) @@ ("exited" :> 1))
        /\ outcome[i].kind = "return"
        /\ outcome[i].value.error = <<"b","o","o","m">>

\* ------------------------------------------------------------------------
\* C5: when poll answers with a non-empty value that is not a mapping, the
\* invocation returns {success: True, output: str(value), error: "",
\* exit_code: 0}: "done" gives output "done", -7 gives "-7", 305 gives
\* "305", [1, 20] gives "[1, 20]" and True gives "True".
\* ------------------------------------------------------------------------
C5_OpaqueResponse ==
    \A i \in Procs :
        (EndedAfterPoll(i) /\ PollReply(i).val.tag # "dict" /\ PollReply(i).val \notin FalsyValues) =>
            LET v == PollReply(i).val
                rendering ==
                    CASE v = PyStr(<<"d","o","n","e">>) -> <<"d","o","n","e">>
                      [] v = PyInt(0 - 7) -> <<"-","7">>
                      [] v = PyInt(305) -> <<"3","0","5">>
                      [] v = PyList(<<1, 20>>) -> <<"[","1",","," ","2","0","]">>
                      [] v = PyBool(TRUE) -> <<"T","r","u","e">>
            IN outcome[i] = Result([success |-> TRUE, output |-> rendering,
                                    error |-> <<>>, exit_code |-> 0])

C5_Witness ==
    \E i \in Procs :
        /\ EndedAfterPoll(i)
        /\ PollReply(i).val = PyStr(<<"d","o","n","e">>)
        /\ outcome[i].kind = "return"

\* ------------------------------------------------------------------------
\* C6: every result execute_command returns has success = True, and every
\* invocation whose poll answered with a non-empty response ends with a
\* result, not an error, also when exited is 0 or absent or exitcode is
\* not 0.
\* ------------------------------------------------------------------------
C6_SuccessAlwaysTrue ==
    \A i \in Procs :
        /\ outcome[i].kind = "return" => outcome[i].value.success = TRUE
        /\ (pc[i] = "done" /\ PollNonEmpty(i)) => outcome[i].kind = "return"

C6_Witness ==
    \E i \in Procs :
        /\ EndedAfterPoll(i)
        /\ PollReply(i).val = PyDict(("exitcode" :> 1))
        /\ outcome[i] = Result([success |-> TRUE, output |-> <<>>, error |-> <<>>, exit_code |-> 1])

\* ------------------------------------------------------------------------
\* C7: an invocation in which a collaborator call raised a failure whose
\* message contains "not found" in any letter case ends with the ValueError
\* "VM {vmid} not found on node {node}", whichever call raised it and
\* whatever the class of the failure.
\* ------------------------------------------------------------------------
C7_NotFoundReclassified ==
    \A i \in Procs :
        \A k \in RaisedAt(i) :
            Contains(Lower(log[i][k].reply.exc.msg), TxtNotFound) =>
                /\ pc[i] = "done"
                /\ outcome[i] = Error(NotFoundError(req[i]))

\* ------------------------------------------------------------------------
\* C8: the not-running ValueError raised by the precondition check reaches
\* the caller as it was raised, never as the not-found error, also when
\* node or vmid put the text "not found" into its message.
\* ------------------------------------------------------------------------
C8_NotRunningNeverReclassified ==
    \A i \in Procs :
        (pc[i] = "done" /\ ReportedNotRunning(i)) =>
            /\ outcome[i].kind = "raise"
            /\ outcome[i].exc.cls = "ValueError"
            /\ outcome[i].exc.msg = TxtVM \o req[i].vmid \o TxtOnNode \o req[i].node \o TxtIsNotRunning
            /\ outcome[i].exc # NotFoundError(req[i])

C8_Witness ==
    \E i \in Procs :
        /\ pc[i] = "done"
        /\ ReportedNotRunning(i)
        /\ outcome[i].kind = "raise"
        /\ outcome[i].exc.msg = <<"V","M"," ","1","0","0"," ","o","n"," ","n","o","d","e"," ","n","o","t"," ","f","o","u","n","d"," ","i","s"," ","n","o","t"," ","r","u","n","n","i","n","g">>
        /\ Contains(Lower(outcome[i].exc.msg), TxtNotFound)

\* ------------------------------------------------------------------------
\* C9: the settle delay happens at most once; it comes directly after a
\* submit that returned a pid and poll comes only directly after it; an
\* invocation that got past the delay has slept exactly once; an invocation
\* whose submit did not return a pid never sleeps.
\* ------------------------------------------------------------------------
C9_SettleDelayOnce ==
    \A i \in Procs :
        /\ Count(i, "sleep") <= 1
        /\ \A k \in 1..Len(log[i]) :
            /\ log[i][k].op = "sleep" =>
                /\ k > 1
                /\ log[i][k - 1].op = "submit"
                /\ ~log[i][k - 1].reply.raised
                /\ "pid" \in DOMAIN log[i][k - 1].reply.val.val
            /\ log[i][k].op = "poll" => (k > 1 /\ log[i][k - 1].op = "sleep")
        /\ (SubmitWithPid(i) /\ pc[i] \in {"sleeping", "poll", "normalize", "done"}) =>
                Count(i, "sleep") = 1
        /\ (SubmitWithPid(i) /\ pc[i] = "done") => Ops(i) = <<"status", "submit", "sleep", "poll">>
        /\ ~SubmitWithPid(i) => Count(i, "sleep") = 0

C9_Witness ==
    \E i \in Procs :
        /\ pc[i] = "done"
        /\ SubmitWithPid(i)
        /\ Ops(i) = <<"status", "submit", "sleep", "poll">>
        /\ \E j \in Procs \ {i} : pc[j] = "sleeping" /\ Ops(j) = <<"status", "submit", "sleep">>

\* a call whose answer stops the invocation: it raised, or it returned a
\* status other than "running", no pid, or an empty response
Unusable(e) ==
    \/ e.reply.raised
    \/ /\ e.op = "status"
       /\ ("status" \notin DOMAIN e.reply.val.val \/ e.reply.val.val["status"] # "running")
    \/ /\ e.op = "submit"
       /\ "pid" \notin DOMAIN e.reply.val.val
    \/ /\ e.op = "poll"
       /\ e.reply.val \in FalsyValues

\* ------------------------------------------------------------------------
\* C10: within one invocation the status query, submit and poll are each
\* called at most once, and a call that raised or returned an unusable
\* answer is the last call of its invocation, which has then ended.
\* ------------------------------------------------------------------------
C10_NoRetry ==
    \A i \in Procs :
        /\ Count(i, "status") <= 1
        /\ Count(i, "submit") <= 1
        /\ Count(i, "poll") <= 1
        /\ \A k \in 1..Len(log[i]) :
            Unusable(log[i][k]) => (k = Len(log[i]) /\ pc[i] = "done")

C10_Witness ==
    \E i \in Procs :
        /\ pc[i] = "done"
        /\ Ops(i) = <<"status", "submit", "sleep", "poll">>
        /\ log[i][4].reply.raised
        /\ outcome[i].kind = "raise"

\* the failure texts of the API client that str.lower() turns into a text
\* with "not found" in it, written out
NotFoundTexts == { <<"4","0","4"," ","N","o","t"," ","F","o","u","n","d">>, <<"v","m"," ","n","o","t"," ","f","o","u","n","d">>, <<"N","O","T"," ","F","O","U","N","D">> }

\* the exception submit raised in invocation i, when log[i] ends with it
SubmitRaised(i) ==
    /\ Len(log[i]) = 2
    /\ log[i][2].op = "submit"
    /\ log[i][2].reply.raised

\* the exception poll raised in invocation i, when log[i] ends with it
PollRaised(i) ==
    /\ Len(log[i]) = 4
    /\ log[i][4].op = "poll"
    /\ log[i][4].reply.raised

\* RuntimeError("Failed to execute command: API call failed: Failed to start command: " + m)
ExecutionStartError(m) ==
    Exc("RuntimeError", TxtFailedToExecute \o TxtApiCallFailed \o TxtFailedToStart \o m)

\* RuntimeError("Failed to execute command: API call failed: Failed to get command status: " + m)
StatusFetchError(m) ==
    Exc("RuntimeError", TxtFailedToExecute \o TxtApiCallFailed \o TxtFailedToGetStatus \o m)

\* ------------------------------------------------------------------------
\* C11 as stated: every failure raised by submit reaches the caller as the
\* start error carrying its message, and every failure raised by poll as the
\* status-fetch error carrying its message.
\* ------------------------------------------------------------------------
C11_StepErrorsAsStated ==
    \A i \in Procs :
        /\ SubmitRaised(i) => outcome[i] = Error(ExecutionStartError(log[i][2].reply.exc.msg))
        /\ PollRaised(i) => outcome[i] = Error(StatusFetchError(log[i][4].reply.exc.msg))

\* ------------------------------------------------------------------------
\* C11 amended: a failure raised by submit whose message has no "not found"
\* in it (in any letter case) reaches the caller as the start error carrying
\* the message, one raised by poll as the status-fetch error carrying the
\* message, and the two errors differ; a failure of either step whose
\* message has "not found" in it reaches the caller as the not-found
\* ValueError, which names neither the step nor the message.
\* ------------------------------------------------------------------------
C11_StepErrors ==
    \A i \in Procs :
        /\ SubmitRaised(i) =>
            LET m == log[i][2].reply.exc.msg IN
            /\ pc[i] = "done"
            /\ outcome[i] = Error(IF m \in NotFoundTexts THEN NotFoundError(req[i])
                                  ELSE ExecutionStartError(m))
            /\ ExecutionStartError(m) # StatusFetchError(m)
        /\ PollRaised(i) =>
            LET m == log[i][4].reply.exc.msg IN
            /\ pc[i] = "done"
            /\ outcome[i] = Error(IF m \in NotFoundTexts THEN NotFoundError(req[i])
                                  ELSE StatusFetchError(m))

C11_Witness ==
    \E i \in Procs :
        /\ PollRaised(i)
        /\ log[i][4].reply.exc = Exc("ValueError", <<"t","i","m","e","o","u","t">>)
        /\ outcome[i] = Error(Exc("RuntimeError", <<"F","a","i","l","e","d"," ","t","o"," ","e","x","e","c","u","t","e"," ","c","o","m","m","a","n","d",":"," ","A","P","I"," ","c","a","l","l"," ","f","a","i","l","e","d",":"," ","F","a","i","l","e","d"," ","t","o"," ","g","e","t"," ","c","o","m","m","a","n","d"," ","s","t","a","t","u","s",":"," ","t","i","m","e","o","u","t">>))

\* the errors execute_command is meant to raise for request r
Classified(e, r) ==
    \/ e = NotRunningError(r)
    \/ e = NotFoundError(r)
    \/ /\ e.cls = "RuntimeError"
       /\ Len(e.msg) >= Len(TxtFailedToExecute)
       /\ SubSeq(e.msg, 1, Len(TxtFailedToExecute)) = TxtFailedToExecute

\* ------------------------------------------------------------------------
\* C12: an invocation that has ended has a result or one of the classified
\* errors (the not-running or the not-found ValueError, or a RuntimeError
\* "Failed to execute command: ..."), and it has the not-running error only
\* when the status query reported a status other than "running": no failure
\* of a collaborator reaches the caller as it was raised.
\* ------------------------------------------------------------------------
C12_EveryFailureClassified ==
    \A i \in Procs :
        pc[i] = "done" =>
            /\ outcome[i].kind \in {"return", "raise"}
            /\ outcome[i].kind = "raise" =>
                /\ Classified(outcome[i].exc, req[i])
                /\ outcome[i].exc = NotRunningError(req[i]) => ReportedNotRunning(i)
                /\ \A k \in RaisedAt(i) : outcome[i].exc # log[i][k].reply.exc

\* the pid that submit returned to invocation i (its log has the submit)
OwnPid(i) == log[i][2].reply.val.val["pid"]

\* ------------------------------------------------------------------------
\* C13: with several invocations under way on one ProxmoxAPI handle, each
\* invocation keeps and polls with the pid its own submit returned, works on
\* the answer of its own poll, and returns a result made from that answer.
\* ------------------------------------------------------------------------
C13_OwnPidOwnResult ==
    \A i \in Procs :
        /\ pc[i] \in {"delay", "sleeping", "poll", "normalize"} =>
            (SubmitWithPid(i) /\ pid[i] = OwnPid(i))
        /\ \A k \in 1..Len(log[i]) :
            log[i][k].op = "poll" => (k = 4 /\ SubmitWithPid(i) /\ log[i][k].arg = OwnPid(i))
        /\ (pc[i] = "normalize" \/ outcome[i].kind = "return") =>
            /\ Len(log[i]) = 4
            /\ ~log[i][4].reply.raised
            /\ console[i] = log[i][4].reply.val
        /\ outcome[i].kind = "return" =>
            LET v == log[i][4].reply.val IN
            IF v.tag = "dict"
            THEN /\ "out-data" \in DOMAIN v.val => outcome[i].value.output = v.val["out-data"]
                 /\ "err-data" \in DOMAIN v.val => outcome[i].value.error = v.val["err-data"]
                 /\ "exitcode" \in DOMAIN v.val => outcome[i].value.exit_code = v.val["exitcode"]
            ELSE /\ v.tag = "str" => outcome[i].value.output = v.val
                 /\ outcome[i].value.error = <<>>

C13_Witness ==
    \E i \in Procs : \E j \in Procs \ {i} :
        /\ pc[i] = "done"
        /\ outcome[i].kind = "return"
        /\ log[i][4].arg = 1
        /\ log[i][4].reply.val = PyStr(<<"d","o","n","e">>)
        /\ pc[j] = "sleeping"
        /\ pid[j] = 2
        /\ req[j] # req[i]

\* the places of execute_command at which the coroutine is running
Running == {"status", "submit", "delay", "poll", "normalize", "done"}

\* ------------------------------------------------------------------------
\* C14: an invocation that is between its call and its sleep, or between its
\* wake-up and its end, holds the event loop and every other invocation is
\* not started, asleep in its settle delay, or over: the other invocations
\* take steps only while this one sleeps.
\* ------------------------------------------------------------------------
C14_SleepIsOnlySuspension ==
    \A i \in Procs :
        /\ pc[i] \in Running =>
            /\ current = {i}
            /\ \A j \in Procs \ {i} : pc[j] \in {"idle", "sleeping", "returned"}
        /\ pc[i] = "sleeping" => current # {i}

C14_Witness ==
    \E i \in Procs : \E j \in Procs \ {i} :
        /\ pc[i] = "sleeping"
        /\ Ops(i) = <<"status", "submit", "sleep">>
        /\ pc[j] = "delay"
        /\ Ops(j) = <<"status", "submit">>
        /\ current = {j}

\* ------------------------------------------------------------------------
\* C15: when every collaborator call returns or raises and the delay
\* elapses, there comes a point after which no invocation is under way any
\* more (each one that was called has ended, with a result or an error),
\* and no invocation ever polls more than once: none polls again when the
\* exited flag of the answer is 0 or absent.
\* ------------------------------------------------------------------------
C15_TerminatesAfterOnePoll ==
    /\ <>[](\A i \in Procs : pc[i] \in {"idle", "returned"})
    /\ [](\A i \in Procs : Count(i, "poll") <= 1)

C15_Witness ==
    \E i \in Procs :
        /\ EndedAfterPoll(i)
        /\ PollReply(i).val = PyDict(("exited" :> 0))
        /\ outcome[i] = Result([success |-> TRUE, output |-> <<>>, error |-> <<>>, exit_code |-> 0])

\* the collaborator events of execute_command, in the order of lines 37-78
Steps == <<"status", "submit", "sleep", "poll">>

\* invocation i went through every step, each with the answer the next needs
AllStepsSucceeded(i) ==
    /\ Ops(i) = Steps
    /\ \A k \in 1..4 : ~log[i][k].reply.raised
    /\ "status" \in DOMAIN log[i][1].reply.val.val
    /\ log[i][1].reply.val.val["status"] = "running"
    /\ "pid" \in DOMAIN log[i][2].reply.val.val
    /\ log[i][4].arg = log[i][2].reply.val.val["pid"]
    /\ log[i][4].reply.val \notin FalsyValues

\* ------------------------------------------------------------------------
\* C16: in every invocation the collaborator events made so far are a
\* prefix of status query, submit, sleep, poll (so each occurs at most once
\* and only after the ones before it), and an invocation has a result only
\* when all four occurred, the status query reported "running", the submit
\* returned a pid and the poll returned a non-empty answer.
\* ------------------------------------------------------------------------
C16_LinearControlFlow ==
    \A i \in Procs :
        /\ Len(log[i]) <= Len(Steps)
        /\ Ops(i) = SubSeq(Steps, 1, Len(log[i]))
        /\ outcome[i].kind = "return" => AllStepsSucceeded(i)

C16_Witness ==
    \E i \in Procs :
        /\ pc[i] = "done"
        /\ outcome[i].kind = "return"
        /\ AllStepsSucceeded(i)
        /\ log[i][4].reply.val = PyStr(<<"d","o","n","e">>)

\* ------------------------------------------------------------------------
\* C17: an invocation whose submit returned no pid, or whose poll returned
\* an empty answer, ends with the RuntimeError made from the executor's own
\* message and never with NotFoundError, whatever node, vmid and command
\* contain; and an invocation ends with NotFoundError only when one of its
\* collaborator calls raised an exception whose message contains
\* "not found" in some mix of cases.
\* ------------------------------------------------------------------------
C17_OwnErrorsNeverNotFound ==
    \A i \in Procs :
        pc[i] = "done" =>
            /\ SubmitWithoutPid(i) =>
                /\ outcome[i] = Error(ExecutionStartErrorNoPid)
                /\ outcome[i] # Error(NotFoundError(req[i]))
            /\ PollEmpty(i) =>
                /\ outcome[i] = Error(StatusFetchErrorNoResponse)
                /\ outcome[i] # Error(NotFoundError(req[i]))
            /\ outcome[i] = Error(NotFoundError(req[i])) =>
                \E k \in RaisedAt(i) : log[i][k].reply.exc.msg \in NotFoundTexts

C17_Witness ==
    \E i \in Procs :
        /\ pc[i] = "done"
        /\ req[i].command = <<"n","o","t"," ","f","o","u","n","d">>
        /\ req[i].vmid = <<"N","o","t"," ","F","o","u","n","d">>
        /\ PollEmpty(i)
        /\ outcome[i] = Error(StatusFetchErrorNoResponse)

====
